---- MODULE Spec2Model ----
(***************************************************************************)
(* Model of the STM32L4R5 true-random-number-generator peripheral          *)
(* (hw/misc/stm32l4r5_rng.c): a register file of three 32-bit registers    *)
(* (CR, SR, DR) behind a memory-mapped I/O window, a read handler, a write *)
(* handler and the access constraints declared in stm32l4r5_rng_ops.       *)
(*                                                                         *)
(* Register and bus values are modelled as the set of their set bit        *)
(* positions: 0x4 is {2}, 0x61 is {0,5,6}, 0 is {}.  v & m is v \cap m,    *)
(* v | m is v \cup m, v & ~m is v \ m, and a store into a uint32_t keeps   *)
(* the bit positions 0..31.  This keeps the full 32/64-bit widths.         *)
(***************************************************************************)
EXTENDS Integers, Sequences, FiniteSets, TLC

(* ------------------------------ bounds --------------------------------- *)

\* Exploration stops once the random source has been invoked this often.
MaxCalls == 3

(* ------------------------- program constants --------------------------- *)

RNG_CR == 0
RNG_SR == 1
RNG_DR == 2

REG_TO_OFFSET(reg) == reg * 4

\* Variant: the register index wraps around the three registers.
OFFSET_TO_REG_Wrap(offset) == (offset \div 4) % 3

OFFSET_TO_REG(offset) == offset \div 4

\* stm32l4r5_rng_ops.valid
valid_min_access_size == 4
valid_max_access_size == 4

\* Variant: unaligned accesses are declared valid.
valid_unaligned_True == TRUE

valid_unaligned == FALSE

\* sizeof(value) for the local "uint64_t value" of the read handler
SizeofValue == 8

\* Byte sizes the register window may have.  hw/misc/stm32l4r5_rng.h is not
\* part of the sources at hand; the register file holds three 32-bit
\* registers (12 bytes) and the window may be larger than the register set.
STM32L4R5_RNG_REGS_SIZES == {12, 16}

(* ------------------------------ values --------------------------------- *)

Bits32 == 0..31
Bits64 == 0..63

\* conversion of a 64-bit value to uint32_t
Trunc32(v) == v \cap Bits32

Zero == {}

\* Values a guest writes (uint64_t value of the write handler).
WriteValues ==
    { {}, {2}, {5}, {6}, {0, 1, 5, 6}, {2, 3, 31, 32} }

\* Lists of values injected into the mock random source (8-byte values; a
\* drawn value may be 0).  The source delivers them in order, cyclically.
InjectedLists ==
    { << {0, 2, 31}, {1, 5, 6, 40, 63} >>,
      << {1, 5, 6, 40, 63}, {}, {0, 2, 31} >> }

\* Byte offsets and access sizes presented to the peripheral.
Offsets == {0, 1, 2, 4, 8, 12, 16}
Sizes == {2, 4, 8}

\* Register files: three uint32_t slots.
RegFile(cr, sr, dr) == (RNG_CR :> cr) @@ (RNG_SR :> sr) @@ (RNG_DR :> dr)
ZeroRegs == RegFile(Zero, Zero, Zero)

(* ------------------------------ state ---------------------------------- *)

VARIABLES
    regs,        \* s->regs: register index -> 32-bit value
    regsSize,    \* STM32L4R5_RNG_REGS_SIZE, byte size of the window
    injected,    \* the values injected into the mock random source
    calls,       \* number of invocations of the random source
    readyReads,  \* number of accepted DR reads performed while DRDY was set
    op,          \* the last access: kind, offset, size, value
    res,         \* its outcome: entered, branch, diag, ret
    lastCR,      \* <<v>>: v is the value of the most recent CR write; <<>>: none
    scen         \* position in the end-to-end scenario, -1 when off it

vars == <<regs, regsSize, injected, calls, readyReads, op, res, lastCR, scen>>

(* -------------------------- random source ------------------------------ *)

\* The k-th value (k = 0, 1, ...) delivered by the mock source.
MockValue(inj, k) == inj[(k % Len(inj)) + 1]

\* qemu_guest_getrandom(buf, len, NULL): fills len bytes of buf.
qemu_guest_getrandom(len, raw) == raw \cap (0..(8 * len - 1))

(* --------------------------- read handler ------------------------------ *)

\* Variant: the random source is drawn from whatever DRDY says.
ReadDR_Ungated(s, raw) ==
    [value |-> qemu_guest_getrandom(SizeofValue, raw), regs |-> s,
     drew |-> TRUE, branch |-> "DR", diag |-> "none"]

\* Variant: a successful DR read consumes the value and clears DRDY.
ReadDR_ClearsDRDY(s, raw) ==
    IF s[RNG_SR] \cap {0} # {}
    THEN [value |-> qemu_guest_getrandom(SizeofValue, raw),
          regs |-> [s EXCEPT ![RNG_SR] = @ \ {0}], drew |-> TRUE,
          branch |-> "DR", diag |-> "none"]
    ELSE [value |-> Zero, regs |-> s, drew |-> FALSE,
          branch |-> "DR", diag |-> "no valid data"]

\* case RNG_DR of the read handler: draw if DRDY (SR bit 0) is set.
ReadDR(s, raw) ==
    IF s[RNG_SR] \cap {0} # {}
    THEN [value |-> qemu_guest_getrandom(SizeofValue, raw), regs |-> s,
          drew |-> TRUE, branch |-> "DR", diag |-> "none"]
    ELSE [value |-> Zero, regs |-> s, drew |-> FALSE,
          branch |-> "DR", diag |-> "no valid data"]

\* stm32l4r5_rng_read(opaque, offset, size) on register file s with window
\* size wsize; raw is what the random source delivers if it is invoked.
stm32l4r5_rng_read(s, wsize, offset, raw) ==
    IF offset >= wsize
    THEN [value |-> Zero, regs |-> s, drew |-> FALSE,
          branch |-> "oob", diag |-> "out-of-bounds offset"]
    ELSE CASE OFFSET_TO_REG(offset) = RNG_CR ->
                [value |-> s[RNG_CR], regs |-> s, drew |-> FALSE,
                 branch |-> "CR", diag |-> "none"]
           [] OFFSET_TO_REG(offset) = RNG_SR ->
                [value |-> s[RNG_SR], regs |-> s, drew |-> FALSE,
                 branch |-> "SR", diag |-> "none"]
           [] OFFSET_TO_REG(offset) = RNG_DR ->
                ReadDR(s, raw)
           [] OTHER ->
                [value |-> Zero, regs |-> s, drew |-> FALSE,
                 branch |-> "default", diag |-> "read from invalid offset"]

(* --------------------------- write handler ----------------------------- *)

\* Variant: DRDY is set on enable but never cleared on disable.
WriteCR_NoClear(s, value) ==
    [s EXCEPT ![RNG_CR] = Trunc32(value),
              ![RNG_SR] = IF value \cap {2} # {} THEN @ \cup {0} ELSE @]

\* Variant: enabling raises SR bit 1 instead of SR bit 0.
WriteCR_SetBit1(s, value) ==
    [s EXCEPT ![RNG_CR] = Trunc32(value),
              ![RNG_SR] = IF value \cap {2} # {} THEN @ \cup {1} ELSE @ \ {0}]

\* Variant: the CR write assigns SR instead of forcing only its bit 0.
WriteCR_ResetSR(s, value) ==
    [s EXCEPT ![RNG_CR] = Trunc32(value),
              ![RNG_SR] = IF value \cap {2} # {} THEN {0} ELSE {}]

\* Variant: only the enable bit of the written value is kept in CR.
WriteCR_EnableOnly(s, value) ==
    [s EXCEPT ![RNG_CR] = value \cap {2},
              ![RNG_SR] = IF value \cap {2} # {} THEN @ \cup {0} ELSE @ \ {0}]

\* Variant: a CR write ORs the enable bit of the value into SR.
WriteCR_OrEnable(s, value) ==
    [s EXCEPT ![RNG_CR] = Trunc32(value),
              ![RNG_SR] = IF value \cap {2} # {} THEN @ \cup {2} ELSE @ \ {0}]

\* case RNG_CR: store value, then derive DRDY from bit 2 of the value.
WriteCR(s, value) ==
    [s EXCEPT ![RNG_CR] = Trunc32(value),
              ![RNG_SR] = IF value \cap {2} # {} THEN @ \cup {0} ELSE @ \ {0}]

\* Variant: the written value replaces SR.
WriteSR_Store(s, value) == [s EXCEPT ![RNG_SR] = Trunc32(value)]

\* case RNG_SR: clear bit 6 if it is 0 in value, clear bit 5 if it is 0.
WriteSR(s, value) ==
    LET s6 == IF value \cap {6} = {} THEN s[RNG_SR] \ {6} ELSE s[RNG_SR]
        s5 == IF value \cap {5} = {} THEN s6 \ {5} ELSE s6
    IN  [s EXCEPT ![RNG_SR] = s5]

\* Variant: a write that matches no case is stored into the DR slot when it
\* lands on it.
stm32l4r5_rng_write_StoreDR(s, offset, value) ==
    CASE offset = RNG_CR ->
            [regs |-> WriteCR(s, value), branch |-> "CR", diag |-> "none"]
      [] offset = RNG_SR ->
            [regs |-> WriteSR(s, value), branch |-> "SR",
             diag |-> IF value \cap {0, 1, 2} # {}
                      THEN "read only bits set" ELSE "none"]
      [] offset = RNG_DR ->
            [regs |-> s, branch |-> "DR",
             diag |-> "write to read-only register"]
      [] OTHER ->
            [regs |-> IF offset = REG_TO_OFFSET(RNG_DR)
                      THEN [s EXCEPT ![RNG_DR] = Trunc32(value)] ELSE s,
             branch |-> "default", diag |-> "write to invalid offset"]

\* stm32l4r5_rng_write(opaque, offset, value, size): switch (offset).
stm32l4r5_rng_write(s, offset, value) ==
    CASE offset = RNG_CR ->
            [regs |-> WriteCR(s, value), branch |-> "CR", diag |-> "none"]
      [] offset = RNG_SR ->
            [regs |-> WriteSR(s, value), branch |-> "SR",
             diag |-> IF value \cap {0, 1, 2} # {}
                      THEN "read only bits set" ELSE "none"]
      [] offset = RNG_DR ->
            [regs |-> s, branch |-> "DR",
             diag |-> "write to read-only register"]
      [] OTHER ->
            [regs |-> s, branch |-> "default",
             diag |-> "write to invalid offset"]

(* ------------------------------ bus gate ------------------------------- *)

\* memory_region_access_valid for the constraints of stm32l4r5_rng_ops.
memory_region_access_valid(offset, size) ==
    /\ valid_unaligned \/ offset % size = 0
    /\ size >= valid_min_access_size
    /\ size <= valid_max_access_size

(* ---------------------------- scenario --------------------------------- *)

ScenarioOps ==
    << [kind |-> "write", offset |-> 0, size |-> 4, value |-> {2}],
       [kind |-> "read",  offset |-> 4, size |-> 4, value |-> Zero],
       [kind |-> "read",  offset |-> 8, size |-> 4, value |-> Zero],
       [kind |-> "read",  offset |-> 8, size |-> 4, value |-> Zero],
       [kind |-> "write", offset |-> 0, size |-> 4, value |-> Zero],
       [kind |-> "read",  offset |-> 4, size |-> 4, value |-> Zero],
       [kind |-> "read",  offset |-> 8, size |-> 4, value |-> Zero] >>

ScenStep(sc, o) ==
    IF sc >= 0 /\ sc < Len(ScenarioOps) /\ o = ScenarioOps[sc + 1]
    THEN sc + 1 ELSE -1

(* ------------------------------- Init ---------------------------------- *)

NoOp == [kind |-> "none", offset |-> 0, size |-> 4, value |-> Zero]
NoRes == [entered |-> FALSE, branch |-> "none", diag |-> "none", ret |-> Zero]

\* State after construction: the register file is zero-initialised.
Init ==
    /\ regs = ZeroRegs
    /\ regsSize \in STM32L4R5_RNG_REGS_SIZES
    /\ injected \in InjectedLists
    /\ calls = 0
    /\ readyReads = 0
    /\ op = NoOp
    /\ res = NoRes
    /\ lastCR = <<>>
    /\ scen = 0

(* ------------------------------ actions -------------------------------- *)

\* Outcome of a read whose handler call returned h.
ReadEffect(o, h) ==
    /\ regs' = h.regs
    /\ calls' = IF h.drew THEN calls + 1 ELSE calls
    /\ readyReads' = IF o.offset = 8 /\ 0 \in regs[RNG_SR]
                     THEN readyReads + 1 ELSE readyReads
    /\ op' = o
    /\ res' = [entered |-> TRUE, branch |-> h.branch, diag |-> h.diag,
               ret |-> h.value]
    /\ scen' = ScenStep(scen, o)
    /\ UNCHANGED <<regsSize, injected, lastCR>>

\* Outcome of a write whose handler call returned h.
WriteEffect(o, h) ==
    /\ regs' = h.regs
    /\ op' = o
    /\ res' = [entered |-> TRUE, branch |-> h.branch, diag |-> h.diag,
               ret |-> Zero]
    /\ lastCR' = IF o.offset = 0 THEN <<o.value>>
                 ELSE lastCR
    /\ scen' = ScenStep(scen, o)
    /\ UNCHANGED <<regsSize, injected, calls, readyReads>>

\* An access the bus rejects: no handler runs, a read yields 0.
Rejected(o) ==
    /\ op' = o
    /\ res' = [entered |-> FALSE, branch |-> "none",
               diag |-> "rejected", ret |-> Zero]
    /\ scen' = ScenStep(scen, o)
    /\ UNCHANGED <<regs, regsSize, injected, calls, readyReads, lastCR>>

\* A load of the given size at the given byte offset, through the bus.
BusRead ==
    \E offset \in Offsets, size \in Sizes :
        LET o == [kind |-> "read", offset |-> offset, size |-> size,
                  value |-> Zero]
        IN  /\ calls < MaxCalls
            /\ IF memory_region_access_valid(offset, size)
               THEN ReadEffect(o, stm32l4r5_rng_read(regs, regsSize, offset,
                                        MockValue(injected, calls)))
               ELSE Rejected(o)

\* A store of the given size and value at the given byte offset.
BusWrite ==
    \E offset \in Offsets, size \in Sizes, value \in WriteValues :
        LET o == [kind |-> "write", offset |-> offset, size |-> size,
                  value |-> value]
        IN  /\ calls < MaxCalls
            /\ IF memory_region_access_valid(offset, size)
               THEN WriteEffect(o, stm32l4r5_rng_write(regs, offset, value))
               ELSE Rejected(o)

Next == BusRead \/ BusWrite

Spec == Init /\ [][Next]_vars

\* A register file in any state that keeps DRDY coupled to the enable bit:
\* the sticky flags SR bits 5 and 6 are raised by conditions outside the
\* guest's reach, so the handlers are also checked from such files.
InitAny ==
    /\ \E cr \in {Zero, {2}}, sticky \in SUBSET {5, 6} :
          regs = RegFile(cr, sticky \cup (IF 2 \in cr THEN {0} ELSE {}), Zero)
    /\ regsSize \in STM32L4R5_RNG_REGS_SIZES
    /\ injected \in InjectedLists
    /\ calls = 0
    /\ readyReads = 0
    /\ op = NoOp
    /\ res = NoRes
    /\ lastCR = <<>>
    /\ scen = -1

SpecAny == InitAny /\ [][Next]_vars

\* The handlers called directly with any byte offset, as a unit test of
\* stm32l4r5_rng_read and stm32l4r5_rng_write does; size is not looked at.
HandlerRead ==
    \E offset \in Offsets :
        LET o == [kind |-> "read", offset |-> offset, size |-> 4,
                  value |-> Zero]
        IN  /\ calls < MaxCalls
            /\ ReadEffect(o, stm32l4r5_rng_read(regs, regsSize, offset,
                                     MockValue(injected, calls)))

HandlerWrite ==
    \E offset \in Offsets, value \in WriteValues :
        LET o == [kind |-> "write", offset |-> offset, size |-> 4,
                  value |-> value]
        IN  /\ calls < MaxCalls
            /\ WriteEffect(o, stm32l4r5_rng_write(regs, offset, value))

NextHandler == HandlerRead \/ HandlerWrite

SpecHandler == InitAny /\ [][NextHandler]_vars

TypeOK ==
    /\ regs \in [{RNG_CR, RNG_SR, RNG_DR} -> SUBSET Bits32]
    /\ regsSize \in STM32L4R5_RNG_REGS_SIZES
    /\ calls \in 0..MaxCalls
    /\ readyReads \in 0..MaxCalls
    /\ res.ret \in SUBSET Bits64

(* ============================== claims ================================= *)

DRDY(s) == 0 \in s[RNG_SR]

\* The access just performed reached a handler (passed the size/alignment
\* gate) and was of the given kind at the given byte offset.
Entered(o, r, kind, offset) ==
    o.kind = kind /\ o.offset = offset /\ r.entered

\* C1: enable/ready coupling.  In every state reachable from construction,
\* SR bit 0 (DRDY) is set iff bit 2 of the value of the most recent write to
\* CR (offset 0x0) was set, and clear if CR was never written; an SR read
\* returns bit 0 accordingly.
C1_EnableReadyCoupling ==
    LET enabled == lastCR # <<>> /\ 2 \in lastCR[1]
    IN  /\ DRDY(regs) <=> enabled
        /\ Entered(op, res, "read", 4) => (0 \in res.ret <=> enabled)

C1_Witness ==
    /\ Entered(op, res, "read", 4)
    /\ 0 \notin res.ret
    /\ lastCR = << {5} >>
    /\ calls > 0

\* C2: gated data read.  A DR read (offset 0x8) while DRDY is clear returns 0
\* and does not invoke the random source; while DRDY is set it invokes the
\* source exactly once and returns the drawn value; the number of
\* invocations always equals the number of DR reads made while DRDY was set.
C2_GatedDataRead ==
    /\ [][ Entered(op', res', "read", 8) =>
              IF DRDY(regs)
              THEN calls' = calls + 1
                   /\ res'.ret = MockValue(injected, calls)
              ELSE calls' = calls /\ res'.ret = Zero ]_vars
    /\ [](calls = readyReads)

C2_Witness ==
    /\ Entered(op, res, "read", 8)
    /\ ~DRDY(regs)
    /\ res.ret = Zero
    /\ calls = 2

\* C3: sticky-bit clear-only semantics.  With SR bit 6 (bit 5) set, a 4-byte
\* write at byte offset 0x4 whose value has that bit 0 clears it, one whose
\* value has that bit 1 leaves it set, and the other sticky bit is untouched.
C3_StickyClearOnly ==
    [][ (Entered(op', res', "write", 4) /\ op'.size = 4) =>
          \A b \in {5, 6} :
              b \in regs[RNG_SR] =>
                  /\ (b \notin op'.value => b \notin regs'[RNG_SR])
                  /\ (b \in op'.value => b \in regs'[RNG_SR]) ]_vars

\* C4: the end-to-end scenario from a fresh peripheral: write CR = 0x4, read
\* SR gives 0x1, two DR reads give the two injected values in order, write
\* CR = 0, read SR gives 0, a further DR read gives 0 and the source has
\* been invoked exactly twice.
C4_Scenario ==
    /\ scen = 1 => calls = 0
    /\ scen = 2 => res.ret = {0}
    /\ scen = 3 => res.ret = injected[1] /\ calls = 1
    /\ scen = 4 => res.ret = injected[2] /\ calls = 2
    /\ scen = 6 => res.ret = Zero
    /\ scen = 7 => res.ret = Zero /\ calls = 2

C4_Witness == scen = 7 /\ injected[1] # injected[2]

\* C5: read-only rejection.  A write of any value at byte offset 0x8 leaves
\* CR, SR and the DR slot unchanged and draws nothing, so the next DR read
\* behaves as if the write had not happened.
C5_DRWriteIsNoOp ==
    [][ Entered(op', res', "write", 8) =>
          /\ regs' = regs
          /\ calls' = calls
          /\ stm32l4r5_rng_read(regs', regsSize, 8, MockValue(injected, calls'))
               = stm32l4r5_rng_read(regs, regsSize, 8,
                                    MockValue(injected, calls)) ]_vars

C5_Witness ==
    /\ Entered(op, res, "write", 8)
    /\ op.value = {2, 3, 31, 32}
    /\ regs[RNG_SR] = {0, 5}
    /\ regs[RNG_DR] = Zero

\* Offsets at or beyond the window, or in it but on none of CR, SR, DR.
InvalidOffset(offset) ==
    \/ offset >= regsSize
    \/ offset \div 4 \notin {0, 1, 2}

\* C6: bounds checking and unmapped registers.  For a 4-byte aligned offset
\* at or beyond the window size, or inside the window but on none of the
\* three registers, a read returns 0 without a draw and a write is
\* discarded; the register file is unchanged and the handler returns.
C6_InvalidOffsets ==
    [][ (op'.kind \in {"read", "write"} /\ op'.offset % 4 = 0
         /\ op'.size = 4 /\ InvalidOffset(op'.offset)) =>
          /\ res'.entered
          /\ res'.branch \in {"oob", "default"}
          /\ res'.ret = Zero
          /\ regs' = regs
          /\ calls' = calls ]_vars

C6_Witness ==
    /\ op.kind = "read" /\ op.offset = 12 /\ res.entered
    /\ regsSize = 16
    /\ res.branch = "default"
    /\ regs[RNG_CR] # Zero
    /\ DRDY(regs)

\* C7: access-width and alignment gate.  An access whose size is not 4 or
\* whose byte offset is not a multiple of 4 reaches no handler: no register
\* changes, nothing is drawn and a read yields 0; hence the write handler is
\* never entered with byte offset 1 or 2.
C7_AccessGate ==
    /\ [][ (op'.kind \in {"read", "write"}
            /\ (op'.size # 4 \/ op'.offset % 4 # 0)) =>
              /\ ~res'.entered
              /\ regs' = regs
              /\ calls' = calls
              /\ res'.ret = Zero ]_vars
    /\ [](res.entered /\ op.kind = "write" => op.offset \notin {1, 2})

C7_Witness ==
    /\ op.kind = "write" /\ op.offset = 0 /\ op.size = 2
    /\ 2 \in op.value
    /\ ~res.entered
    /\ ~DRDY(regs)

\* C8: read and write decode the same register for the same byte offset:
\* for each 4-byte aligned offset in the window the write handler takes the
\* case of register offset/4, as the read handler does (0x0: CR store,
\* 0x4: SR status clear, 0x8: DR read-only write).
C8_SameDecode ==
    (op.kind = "write" /\ res.entered /\ op.offset % 4 = 0
     /\ op.offset < regsSize) =>
        res.branch = stm32l4r5_rng_read(regs, regsSize, op.offset, Zero).branch

\* C9: reads never change the register file: a read at any offset leaves CR
\* and SR unchanged; a DR read does not clear DRDY, so every DR read made
\* while enabled draws a fresh value and leaves DRDY set.
C9_ReadsKeepRegs ==
    [][ op'.kind = "read" =>
          /\ regs' = regs
          /\ (Entered(op', res', "read", 8) /\ DRDY(regs)) =>
                (calls' = calls + 1 /\ DRDY(regs')) ]_vars

C9_Witness ==
    /\ Entered(op, res, "read", 8)
    /\ calls = 3
    /\ DRDY(regs)
    /\ regs[RNG_SR] = {0, 5, 6}

\* C10: a write to SR never replaces SR wholesale.  For every stored SR and
\* written value, a write at the SR offset 0x4, and any write that takes
\* the handler's SR case, leaves every SR bit other than 5 and 6 unchanged,
\* turns no SR bit from 0 to 1 and leaves CR unchanged.
C10_SRWriteNotWholesale ==
    [][ (op'.kind = "write" /\ res'.entered
         /\ (op'.offset = 4 \/ res'.branch = "SR")) =>
          /\ regs'[RNG_SR] \ {5, 6} = regs[RNG_SR] \ {5, 6}
          /\ regs'[RNG_SR] \subseteq regs[RNG_SR]
          /\ regs'[RNG_CR] = regs[RNG_CR] ]_vars

C10_Witness ==
    /\ op.kind = "write" /\ res.entered /\ res.branch = "SR"
    /\ op.value = {0, 1, 5, 6}
    /\ res.diag = "read only bits set"
    /\ regs[RNG_SR] = {0, 5}
    /\ regs[RNG_CR] = {2}

\* The access is a write to SR: one at the SR byte offset 0x4, or one for
\* which the write handler takes its SR case.
IsSRWrite(o, r) ==
    o.kind = "write" /\ r.entered /\ (o.offset = 4 \/ r.branch = "SR")

\* C11: sticky flags persist.  If SR bit 5 (bit 6) is set it stays set
\* across every operation other than an SR write whose value has that bit
\* 0: across CR writes of any value, DR writes, writes to unmapped or
\* out-of-bounds offsets and all reads.
C11_StickyPersist ==
    [][ \A b \in {5, 6} :
          (b \in regs[RNG_SR] /\ ~(IsSRWrite(op', res') /\ b \notin op'.value))
              => b \in regs'[RNG_SR] ]_vars

C11_Witness ==
    /\ op.kind = "write" /\ op.offset = 0 /\ res.entered
    /\ op.value = Zero
    /\ regs[RNG_SR] = {5, 6}
    /\ calls > 0

\* C12: CR write/read round trip.  After a write of a 32-bit value v at
\* offset 0x0, CR holds exactly v and a CR read returns exactly v, whatever
\* reads, SR writes, DR writes or invalid-offset writes come in between;
\* the CR write changes no SR bit other than bit 0.
C12_CRRoundTrip ==
    /\ [](  (lastCR # <<>> /\ lastCR[1] \subseteq Bits32) =>
              /\ regs[RNG_CR] = lastCR[1]
              /\ Entered(op, res, "read", 0) => res.ret = lastCR[1] )
    /\ [][ Entered(op', res', "write", 0) =>
              regs'[RNG_SR] \ {0} = regs[RNG_SR] \ {0} ]_vars

C12_Witness ==
    /\ Entered(op, res, "read", 0)
    /\ lastCR = << {0, 1, 5, 6} >>
    /\ res.ret = {0, 1, 5, 6}
    /\ regs[RNG_SR] = {5}
    /\ calls > 0

\* C13: the value the read handler returns for a DR read while DRDY is set
\* is a 32-bit value: four random bytes are drawn and the upper 32 bits of
\* the returned 64-bit result are zero.
C13_DRValueIs32Bit ==
    (Entered(op, res, "read", 8) /\ res.branch = "DR" /\ DRDY(regs)) =>
        res.ret \subseteq Bits32

\* C14: from the zero-initialised register file no sequence of guest
\* accesses sets SR bit 5, bit 6 or any SR bit other than bit 0: stored SR
\* is 0 or 1, every SR read returns 0 or 1, and the sticky-clear branches of
\* the SR write would not change the state.
C14_SRIsZeroOrOne ==
    /\ regs[RNG_SR] \subseteq {0}
    /\ Entered(op, res, "read", 4) => res.ret \subseteq {0}
    /\ \A v \in WriteValues : WriteSR(regs, v) = regs

C14_Witness ==
    /\ Entered(op, res, "write", 4)
    /\ op.value = Zero
    /\ regs[RNG_SR] = {0}
    /\ regs[RNG_CR] = {2, 3, 31}
    /\ calls > 0

====
